---- MODULE Spec2Model ----
(***************************************************************************)
(* Collateral-type data access hooks (useCollateralTypes.ts) and the       *)
(* generated PerpsMarketProxy import map (importPerpsMarketProxy.ts).      *)
(*                                                                         *)
(* A JavaScript string that the code inspects (startsWith, toLowerCase,    *)
(* ===) is the sequence of its UTF-16 code units: "WETH" is                *)
(* <<87, 69, 84, 72>>. A value that may be undefined is None (<<>>) or     *)
(* Some(v) (<<v>>).                                                        *)
(*                                                                         *)
(* The event loop is modelled as it runs: a task (a render, a contract     *)
(* call answering) runs only when no microtask is queued, and the          *)
(* continuations of the async functions are microtasks run in queue order. *)
(***************************************************************************)
EXTENDS Integers, Sequences, FiniteSets, TLC

VARIABLES
    CoreProxy,         \* useCoreProxy().data: "undefined" or "contract"
    Multicall3,        \* useMulticall3().data: "undefined" or "contract"
    chainConfigs,      \* what getCollateralConfigurations returns
    query,             \* the query cache, keyed by includeDelegationOff
    run,               \* the queryFn run of each cache entry
    micro,             \* the microtask queue
    collateralSymbol,  \* the argument of useCollateralType
    rendered,          \* the collection useCollateralType saw at its last render
    selected,          \* the data useCollateralType returned at its last render
    imports            \* the importPerpsMarketProxy calls made

loadVars == <<CoreProxy, Multicall3, chainConfigs, query, run, micro>>
selectVars == <<collateralSymbol, rendered, selected>>
vars == <<loadVars, selectVars, imports>>

\* ------------------------------------------------------------------ bounds
\* Longest configuration list the core contract returns in the model.
MaxConfigs == 2
\* Width of the unsigned integers in the model (uint256 in the contracts;
\* TLC's integers are 32 bits wide, so the width is scaled down).
UintBits == 8
\* Most importPerpsMarketProxy calls in one behaviour.
MaxCalls == 2

None == <<>>
Some(v) == <<v>>

\* ------------------------------------------------------------------ strings
\* Unicode 17.0 lower-case mappings above ASCII (the Unicode of the runtime's
\* String.prototype.toLowerCase), as <<first, last, delta, step>>:
\* every step-th code point from first to last maps to itself plus delta.
UnicodeLowerRanges ==
    { <<192, 214, 32, 1>>, <<216, 222, 32, 1>>, <<256, 302, 1, 2>>, <<306, 310, 1, 2>>,
      <<313, 327, 1, 2>>, <<330, 374, 1, 2>>, <<376, 376, -121, 1>>, <<377, 381, 1, 2>>,
      <<385, 385, 210, 1>>, <<386, 388, 1, 2>>, <<390, 390, 206, 1>>, <<391, 391, 1, 1>>,
      <<393, 394, 205, 1>>, <<395, 395, 1, 1>>, <<398, 398, 79, 1>>, <<399, 399, 202, 1>>,
      <<400, 400, 203, 1>>, <<401, 401, 1, 1>>, <<403, 403, 205, 1>>, <<404, 404, 207, 1>>,
      <<406, 406, 211, 1>>, <<407, 407, 209, 1>>, <<408, 408, 1, 1>>, <<412, 412, 211, 1>>,
      <<413, 413, 213, 1>>, <<415, 415, 214, 1>>, <<416, 420, 1, 2>>, <<422, 422, 218, 1>>,
      <<423, 423, 1, 1>>, <<425, 425, 218, 1>>, <<428, 428, 1, 1>>, <<430, 430, 218, 1>>,
      <<431, 431, 1, 1>>, <<433, 434, 217, 1>>, <<435, 437, 1, 2>>, <<439, 439, 219, 1>>,
      <<440, 440, 1, 1>>, <<444, 444, 1, 1>>, <<452, 452, 2, 1>>, <<453, 453, 1, 1>>,
      <<455, 455, 2, 1>>, <<456, 456, 1, 1>>, <<458, 458, 2, 1>>, <<459, 475, 1, 2>>,
      <<478, 494, 1, 2>>, <<497, 497, 2, 1>>, <<498, 500, 1, 2>>, <<502, 502, -97, 1>>,
      <<503, 503, -56, 1>>, <<504, 542, 1, 2>>, <<544, 544, -130, 1>>, <<546, 562, 1, 2>>,
      <<570, 570, 10795, 1>>, <<571, 571, 1, 1>>, <<573, 573, -163, 1>>, <<574, 574, 10792, 1>>,
      <<577, 577, 1, 1>>, <<579, 579, -195, 1>>, <<580, 580, 69, 1>>, <<581, 581, 71, 1>>,
      <<582, 590, 1, 2>>, <<880, 882, 1, 2>>, <<886, 886, 1, 1>>, <<895, 895, 116, 1>>,
      <<902, 902, 38, 1>>, <<904, 906, 37, 1>>, <<908, 908, 64, 1>>, <<910, 911, 63, 1>>,
      <<913, 929, 32, 1>>, <<931, 939, 32, 1>>, <<975, 975, 8, 1>>, <<984, 1006, 1, 2>>,
      <<1012, 1012, -60, 1>>, <<1015, 1015, 1, 1>>, <<1017, 1017, -7, 1>>, <<1018, 1018, 1, 1>>,
      <<1021, 1023, -130, 1>>, <<1024, 1039, 80, 1>>, <<1040, 1071, 32, 1>>, <<1120, 1152, 1, 2>>,
      <<1162, 1214, 1, 2>>, <<1216, 1216, 15, 1>>, <<1217, 1229, 1, 2>>, <<1232, 1326, 1, 2>>,
      <<1329, 1366, 48, 1>>, <<4256, 4293, 7264, 1>>, <<4295, 4295, 7264, 1>>, <<4301, 4301, 7264, 1>>,
      <<5024, 5103, 38864, 1>>, <<5104, 5109, 8, 1>>, <<7305, 7305, 1, 1>>, <<7312, 7354, -3008, 1>>,
      <<7357, 7359, -3008, 1>>, <<7680, 7828, 1, 2>>, <<7838, 7838, -7615, 1>>, <<7840, 7934, 1, 2>>,
      <<7944, 7951, -8, 1>>, <<7960, 7965, -8, 1>>, <<7976, 7983, -8, 1>>, <<7992, 7999, -8, 1>>,
      <<8008, 8013, -8, 1>>, <<8025, 8031, -8, 2>>, <<8040, 8047, -8, 1>>, <<8072, 8079, -8, 1>>,
      <<8088, 8095, -8, 1>>, <<8104, 8111, -8, 1>>, <<8120, 8121, -8, 1>>, <<8122, 8123, -74, 1>>,
      <<8124, 8124, -9, 1>>, <<8136, 8139, -86, 1>>, <<8140, 8140, -9, 1>>, <<8152, 8153, -8, 1>>,
      <<8154, 8155, -100, 1>>, <<8168, 8169, -8, 1>>, <<8170, 8171, -112, 1>>, <<8172, 8172, -7, 1>>,
      <<8184, 8185, -128, 1>>, <<8186, 8187, -126, 1>>, <<8188, 8188, -9, 1>>, <<8486, 8486, -7517, 1>>,
      <<8490, 8490, -8383, 1>>, <<8491, 8491, -8262, 1>>, <<8498, 8498, 28, 1>>, <<8544, 8559, 16, 1>>,
      <<8579, 8579, 1, 1>>, <<9398, 9423, 26, 1>>, <<11264, 11311, 48, 1>>, <<11360, 11360, 1, 1>>,
      <<11362, 11362, -10743, 1>>, <<11363, 11363, -3814, 1>>, <<11364, 11364, -10727, 1>>, <<11367, 11371, 1, 2>>,
      <<11373, 11373, -10780, 1>>, <<11374, 11374, -10749, 1>>, <<11375, 11375, -10783, 1>>, <<11376, 11376, -10782, 1>>,
      <<11378, 11378, 1, 1>>, <<11381, 11381, 1, 1>>, <<11390, 11391, -10815, 1>>, <<11392, 11490, 1, 2>>,
      <<11499, 11501, 1, 2>>, <<11506, 11506, 1, 1>>, <<42560, 42604, 1, 2>>, <<42624, 42650, 1, 2>>,
      <<42786, 42798, 1, 2>>, <<42802, 42862, 1, 2>>, <<42873, 42875, 1, 2>>, <<42877, 42877, -35332, 1>>,
      <<42878, 42886, 1, 2>>, <<42891, 42891, 1, 1>>, <<42893, 42893, -42280, 1>>, <<42896, 42898, 1, 2>>,
      <<42902, 42920, 1, 2>>, <<42922, 42922, -42308, 1>>, <<42923, 42923, -42319, 1>>, <<42924, 42924, -42315, 1>>,
      <<42925, 42925, -42305, 1>>, <<42926, 42926, -42308, 1>>, <<42928, 42928, -42258, 1>>, <<42929, 42929, -42282, 1>>,
      <<42930, 42930, -42261, 1>>, <<42931, 42931, 928, 1>>, <<42932, 42946, 1, 2>>, <<42948, 42948, -48, 1>>,
      <<42949, 42949, -42307, 1>>, <<42950, 42950, -35384, 1>>, <<42951, 42953, 1, 2>>, <<42955, 42955, -42343, 1>>,
      <<42956, 42970, 1, 2>>, <<42972, 42972, -42561, 1>>, <<42997, 42997, 1, 1>>, <<65313, 65338, 32, 1>>,
      <<66560, 66599, 40, 1>>, <<66736, 66771, 40, 1>>, <<66928, 66938, 39, 1>>, <<66940, 66954, 39, 1>>,
      <<66956, 66962, 39, 1>>, <<66964, 66965, 39, 1>>, <<68736, 68786, 64, 1>>, <<68944, 68965, 32, 1>>,
      <<71840, 71871, 32, 1>>, <<93760, 93791, 32, 1>>, <<93856, 93880, 27, 1>>, <<125184, 125217, 34, 1>> }

\* Case_Ignorable code points, as <<first, last>>.
CaseIgnorableRanges ==
    { <<39, 39>>, <<46, 46>>, <<58, 58>>, <<94, 94>>, <<96, 96>>, <<168, 168>>,
      <<173, 173>>, <<175, 175>>, <<180, 180>>, <<183, 184>>, <<688, 879>>, <<884, 885>>,
      <<890, 890>>, <<900, 901>>, <<903, 903>>, <<1155, 1161>>, <<1369, 1369>>, <<1375, 1375>>,
      <<1425, 1469>>, <<1471, 1471>>, <<1473, 1474>>, <<1476, 1477>>, <<1479, 1479>>, <<1524, 1524>>,
      <<1536, 1541>>, <<1552, 1562>>, <<1564, 1564>>, <<1600, 1600>>, <<1611, 1631>>, <<1648, 1648>>,
      <<1750, 1757>>, <<1759, 1768>>, <<1770, 1773>>, <<1807, 1807>>, <<1809, 1809>>, <<1840, 1866>>,
      <<1958, 1968>>, <<2027, 2037>>, <<2042, 2042>>, <<2045, 2045>>, <<2070, 2093>>, <<2137, 2139>>,
      <<2184, 2184>>, <<2192, 2193>>, <<2199, 2207>>, <<2249, 2306>>, <<2362, 2362>>, <<2364, 2364>>,
      <<2369, 2376>>, <<2381, 2381>>, <<2385, 2391>>, <<2402, 2403>>, <<2417, 2417>>, <<2433, 2433>>,
      <<2492, 2492>>, <<2497, 2500>>, <<2509, 2509>>, <<2530, 2531>>, <<2558, 2558>>, <<2561, 2562>>,
      <<2620, 2620>>, <<2625, 2626>>, <<2631, 2632>>, <<2635, 2637>>, <<2641, 2641>>, <<2672, 2673>>,
      <<2677, 2677>>, <<2689, 2690>>, <<2748, 2748>>, <<2753, 2757>>, <<2759, 2760>>, <<2765, 2765>>,
      <<2786, 2787>>, <<2810, 2815>>, <<2817, 2817>>, <<2876, 2876>>, <<2879, 2879>>, <<2881, 2884>>,
      <<2893, 2893>>, <<2901, 2902>>, <<2914, 2915>>, <<2946, 2946>>, <<3008, 3008>>, <<3021, 3021>>,
      <<3072, 3072>>, <<3076, 3076>>, <<3132, 3132>>, <<3134, 3136>>, <<3142, 3144>>, <<3146, 3149>>,
      <<3157, 3158>>, <<3170, 3171>>, <<3201, 3201>>, <<3260, 3260>>, <<3263, 3263>>, <<3270, 3270>>,
      <<3276, 3277>>, <<3298, 3299>>, <<3328, 3329>>, <<3387, 3388>>, <<3393, 3396>>, <<3405, 3405>>,
      <<3426, 3427>>, <<3457, 3457>>, <<3530, 3530>>, <<3538, 3540>>, <<3542, 3542>>, <<3633, 3633>>,
      <<3636, 3642>>, <<3654, 3662>>, <<3761, 3761>>, <<3764, 3772>>, <<3782, 3782>>, <<3784, 3790>>,
      <<3864, 3865>>, <<3893, 3893>>, <<3895, 3895>>, <<3897, 3897>>, <<3953, 3966>>, <<3968, 3972>>,
      <<3974, 3975>>, <<3981, 3991>>, <<3993, 4028>>, <<4038, 4038>>, <<4141, 4144>>, <<4146, 4151>>,
      <<4153, 4154>>, <<4157, 4158>>, <<4184, 4185>>, <<4190, 4192>>, <<4209, 4212>>, <<4226, 4226>>,
      <<4229, 4230>>, <<4237, 4237>>, <<4253, 4253>>, <<4348, 4348>>, <<4957, 4959>>, <<5906, 5908>>,
      <<5938, 5939>>, <<5970, 5971>>, <<6002, 6003>>, <<6068, 6069>>, <<6071, 6077>>, <<6086, 6086>>,
      <<6089, 6099>>, <<6103, 6103>>, <<6109, 6109>>, <<6155, 6159>>, <<6211, 6211>>, <<6277, 6278>>,
      <<6313, 6313>>, <<6432, 6434>>, <<6439, 6440>>, <<6450, 6450>>, <<6457, 6459>>, <<6679, 6680>>,
      <<6683, 6683>>, <<6742, 6742>>, <<6744, 6750>>, <<6752, 6752>>, <<6754, 6754>>, <<6757, 6764>>,
      <<6771, 6780>>, <<6783, 6783>>, <<6823, 6823>>, <<6832, 6877>>, <<6880, 6891>>, <<6912, 6915>>,
      <<6964, 6964>>, <<6966, 6970>>, <<6972, 6972>>, <<6978, 6978>>, <<7019, 7027>>, <<7040, 7041>>,
      <<7074, 7077>>, <<7080, 7081>>, <<7083, 7085>>, <<7142, 7142>>, <<7144, 7145>>, <<7149, 7149>>,
      <<7151, 7153>>, <<7212, 7219>>, <<7222, 7223>>, <<7288, 7293>>, <<7376, 7378>>, <<7380, 7392>>,
      <<7394, 7400>>, <<7405, 7405>>, <<7412, 7412>>, <<7416, 7417>>, <<7468, 7530>>, <<7544, 7544>>,
      <<7579, 7679>>, <<8125, 8125>>, <<8127, 8129>>, <<8141, 8143>>, <<8157, 8159>>, <<8173, 8175>>,
      <<8189, 8190>>, <<8203, 8207>>, <<8216, 8217>>, <<8228, 8228>>, <<8231, 8231>>, <<8234, 8238>>,
      <<8288, 8292>>, <<8294, 8303>>, <<8305, 8305>>, <<8319, 8319>>, <<8336, 8348>>, <<8400, 8432>>,
      <<11388, 11389>>, <<11503, 11505>>, <<11631, 11631>>, <<11647, 11647>>, <<11744, 11775>>, <<11823, 11823>>,
      <<12293, 12293>>, <<12330, 12333>>, <<12337, 12341>>, <<12347, 12347>>, <<12441, 12446>>, <<12540, 12542>>,
      <<40981, 40981>>, <<42232, 42237>>, <<42508, 42508>>, <<42607, 42610>>, <<42612, 42621>>, <<42623, 42623>>,
      <<42652, 42655>>, <<42736, 42737>>, <<42752, 42785>>, <<42864, 42864>>, <<42888, 42890>>, <<42993, 42996>>,
      <<43000, 43001>>, <<43010, 43010>>, <<43014, 43014>>, <<43019, 43019>>, <<43045, 43046>>, <<43052, 43052>>,
      <<43204, 43205>>, <<43232, 43249>>, <<43263, 43263>>, <<43302, 43309>>, <<43335, 43345>>, <<43392, 43394>>,
      <<43443, 43443>>, <<43446, 43449>>, <<43452, 43453>>, <<43471, 43471>>, <<43493, 43494>>, <<43561, 43566>>,
      <<43569, 43570>>, <<43573, 43574>>, <<43587, 43587>>, <<43596, 43596>>, <<43632, 43632>>, <<43644, 43644>>,
      <<43696, 43696>>, <<43698, 43700>>, <<43703, 43704>>, <<43710, 43711>>, <<43713, 43713>>, <<43741, 43741>>,
      <<43756, 43757>>, <<43763, 43764>>, <<43766, 43766>>, <<43867, 43871>>, <<43881, 43883>>, <<44005, 44005>>,
      <<44008, 44008>>, <<44013, 44013>>, <<64286, 64286>>, <<64434, 64450>>, <<65024, 65039>>, <<65043, 65043>>,
      <<65056, 65071>>, <<65106, 65106>>, <<65109, 65109>>, <<65279, 65279>>, <<65287, 65287>>, <<65294, 65294>>,
      <<65306, 65306>>, <<65342, 65342>>, <<65344, 65344>>, <<65392, 65392>>, <<65438, 65439>>, <<65507, 65507>>,
      <<65529, 65531>>, <<66045, 66045>>, <<66272, 66272>>, <<66422, 66426>>, <<67456, 67461>>, <<67463, 67504>>,
      <<67506, 67514>>, <<68097, 68099>>, <<68101, 68102>>, <<68108, 68111>>, <<68152, 68154>>, <<68159, 68159>>,
      <<68325, 68326>>, <<68900, 68903>>, <<68942, 68942>>, <<68969, 68973>>, <<68975, 68975>>, <<69291, 69292>>,
      <<69317, 69317>>, <<69370, 69375>>, <<69446, 69456>>, <<69506, 69509>>, <<69633, 69633>>, <<69688, 69702>>,
      <<69744, 69744>>, <<69747, 69748>>, <<69759, 69761>>, <<69811, 69814>>, <<69817, 69818>>, <<69821, 69821>>,
      <<69826, 69826>>, <<69837, 69837>>, <<69888, 69890>>, <<69927, 69931>>, <<69933, 69940>>, <<70003, 70003>>,
      <<70016, 70017>>, <<70070, 70078>>, <<70089, 70092>>, <<70095, 70095>>, <<70191, 70193>>, <<70196, 70196>>,
      <<70198, 70199>>, <<70206, 70206>>, <<70209, 70209>>, <<70367, 70367>>, <<70371, 70378>>, <<70400, 70401>>,
      <<70459, 70460>>, <<70464, 70464>>, <<70502, 70508>>, <<70512, 70516>>, <<70587, 70592>>, <<70606, 70606>>,
      <<70608, 70608>>, <<70610, 70610>>, <<70625, 70626>>, <<70712, 70719>>, <<70722, 70724>>, <<70726, 70726>>,
      <<70750, 70750>>, <<70835, 70840>>, <<70842, 70842>>, <<70847, 70848>>, <<70850, 70851>>, <<71090, 71093>>,
      <<71100, 71101>>, <<71103, 71104>>, <<71132, 71133>>, <<71219, 71226>>, <<71229, 71229>>, <<71231, 71232>>,
      <<71339, 71339>>, <<71341, 71341>>, <<71344, 71349>>, <<71351, 71351>>, <<71453, 71453>>, <<71455, 71455>>,
      <<71458, 71461>>, <<71463, 71467>>, <<71727, 71735>>, <<71737, 71738>>, <<71995, 71996>>, <<71998, 71998>>,
      <<72003, 72003>>, <<72148, 72151>>, <<72154, 72155>>, <<72160, 72160>>, <<72193, 72202>>, <<72243, 72248>>,
      <<72251, 72254>>, <<72263, 72263>>, <<72273, 72278>>, <<72281, 72283>>, <<72330, 72342>>, <<72344, 72345>>,
      <<72544, 72544>>, <<72546, 72548>>, <<72550, 72550>>, <<72752, 72758>>, <<72760, 72765>>, <<72767, 72767>>,
      <<72850, 72871>>, <<72874, 72880>>, <<72882, 72883>>, <<72885, 72886>>, <<73009, 73014>>, <<73018, 73018>>,
      <<73020, 73021>>, <<73023, 73029>>, <<73031, 73031>>, <<73104, 73105>>, <<73109, 73109>>, <<73111, 73111>>,
      <<73177, 73177>>, <<73459, 73460>>, <<73472, 73473>>, <<73526, 73530>>, <<73536, 73536>>, <<73538, 73538>>,
      <<73562, 73562>>, <<78896, 78912>>, <<78919, 78933>>, <<90398, 90409>>, <<90413, 90415>>, <<92912, 92916>>,
      <<92976, 92982>>, <<92992, 92995>>, <<93504, 93506>>, <<93547, 93548>>, <<94031, 94031>>, <<94095, 94111>>,
      <<94176, 94177>>, <<94179, 94180>>, <<94194, 94195>>, <<110576, 110579>>, <<110581, 110587>>, <<110589, 110590>>,
      <<113821, 113822>>, <<113824, 113827>>, <<118528, 118573>>, <<118576, 118598>>, <<119143, 119145>>, <<119155, 119170>>,
      <<119173, 119179>>, <<119210, 119213>>, <<119362, 119364>>, <<121344, 121398>>, <<121403, 121452>>, <<121461, 121461>>,
      <<121476, 121476>>, <<121499, 121503>>, <<121505, 121519>>, <<122880, 122886>>, <<122888, 122904>>, <<122907, 122913>>,
      <<122915, 122916>>, <<122918, 122922>>, <<122928, 122989>>, <<123023, 123023>>, <<123184, 123197>>, <<123566, 123566>>,
      <<123628, 123631>>, <<124139, 124143>>, <<124398, 124399>>, <<124643, 124643>>, <<124646, 124646>>, <<124654, 124655>>,
      <<124661, 124661>>, <<124671, 124671>>, <<125136, 125142>>, <<125252, 125259>>, <<127995, 127999>>, <<917505, 917505>>,
      <<917536, 917631>>, <<917760, 917999>> }

\* Cased code points that are not Case_Ignorable, as <<first, last>>.
CasedRanges ==
    { <<65, 90>>, <<97, 122>>, <<170, 170>>, <<181, 181>>, <<186, 186>>, <<192, 214>>,
      <<216, 246>>, <<248, 442>>, <<444, 447>>, <<452, 659>>, <<662, 687>>, <<880, 883>>,
      <<886, 887>>, <<891, 893>>, <<895, 895>>, <<902, 902>>, <<904, 906>>, <<908, 908>>,
      <<910, 929>>, <<931, 1013>>, <<1015, 1153>>, <<1162, 1327>>, <<1329, 1366>>, <<1376, 1416>>,
      <<4256, 4293>>, <<4295, 4295>>, <<4301, 4301>>, <<4304, 4346>>, <<4349, 4351>>, <<5024, 5109>>,
      <<5112, 5117>>, <<7296, 7306>>, <<7312, 7354>>, <<7357, 7359>>, <<7424, 7467>>, <<7531, 7543>>,
      <<7545, 7578>>, <<7680, 7957>>, <<7960, 7965>>, <<7968, 8005>>, <<8008, 8013>>, <<8016, 8023>>,
      <<8025, 8025>>, <<8027, 8027>>, <<8029, 8029>>, <<8031, 8061>>, <<8064, 8116>>, <<8118, 8124>>,
      <<8126, 8126>>, <<8130, 8132>>, <<8134, 8140>>, <<8144, 8147>>, <<8150, 8155>>, <<8160, 8172>>,
      <<8178, 8180>>, <<8182, 8188>>, <<8450, 8450>>, <<8455, 8455>>, <<8458, 8467>>, <<8469, 8469>>,
      <<8473, 8477>>, <<8484, 8484>>, <<8486, 8486>>, <<8488, 8488>>, <<8490, 8493>>, <<8495, 8500>>,
      <<8505, 8505>>, <<8508, 8511>>, <<8517, 8521>>, <<8526, 8526>>, <<8544, 8575>>, <<8579, 8580>>,
      <<9398, 9449>>, <<11264, 11387>>, <<11390, 11492>>, <<11499, 11502>>, <<11506, 11507>>, <<11520, 11557>>,
      <<11559, 11559>>, <<11565, 11565>>, <<42560, 42605>>, <<42624, 42651>>, <<42786, 42863>>, <<42865, 42887>>,
      <<42891, 42894>>, <<42896, 42972>>, <<42997, 42998>>, <<43002, 43002>>, <<43824, 43866>>, <<43872, 43880>>,
      <<43888, 43967>>, <<64256, 64262>>, <<64275, 64279>>, <<65313, 65338>>, <<65345, 65370>>, <<66560, 66639>>,
      <<66736, 66771>>, <<66776, 66811>>, <<66928, 66938>>, <<66940, 66954>>, <<66956, 66962>>, <<66964, 66965>>,
      <<66967, 66977>>, <<66979, 66993>>, <<66995, 67001>>, <<67003, 67004>>, <<68736, 68786>>, <<68800, 68850>>,
      <<68944, 68965>>, <<68976, 68997>>, <<71840, 71903>>, <<93760, 93823>>, <<93856, 93880>>, <<93883, 93907>>,
      <<119808, 119892>>, <<119894, 119964>>, <<119966, 119967>>, <<119970, 119970>>, <<119973, 119974>>, <<119977, 119980>>,
      <<119982, 119993>>, <<119995, 119995>>, <<119997, 120003>>, <<120005, 120069>>, <<120071, 120074>>, <<120077, 120084>>,
      <<120086, 120092>>, <<120094, 120121>>, <<120123, 120126>>, <<120128, 120132>>, <<120134, 120134>>, <<120138, 120144>>,
      <<120146, 120485>>, <<120488, 120512>>, <<120514, 120538>>, <<120540, 120570>>, <<120572, 120596>>, <<120598, 120628>>,
      <<120630, 120654>>, <<120656, 120686>>, <<120688, 120712>>, <<120714, 120744>>, <<120746, 120770>>, <<120772, 120779>>,
      <<122624, 122633>>, <<122635, 122654>>, <<122661, 122666>>, <<125184, 125251>>, <<127280, 127305>>, <<127312, 127337>>,
      <<127344, 127369>> }

InRanges(c, ranges) == \E r \in ranges : r[1] <= c /\ c <= r[2]

IsHighSurrogate(u) == 55296 <= u /\ u <= 56319
IsLowSurrogate(u) == 56320 <= u /\ u <= 57343

\* The code points of a sequence of UTF-16 code units; a surrogate without
\* its partner stands for itself.
RECURSIVE ToCodePoints(_)
ToCodePoints(units) ==
    IF units = <<>> THEN <<>>
    ELSE IF Len(units) >= 2 /\ IsHighSurrogate(units[1]) /\ IsLowSurrogate(units[2])
    THEN <<65536 + (units[1] - 55296) * 1024 + (units[2] - 56320)>>
            \o ToCodePoints(SubSeq(units, 3, Len(units)))
    ELSE <<units[1]>> \o ToCodePoints(Tail(units))

\* The UTF-16 code units of a sequence of code points.
RECURSIVE FromCodePoints(_)
FromCodePoints(cps) ==
    IF cps = <<>> THEN <<>>
    ELSE IF cps[1] >= 65536
    THEN <<55296 + ((cps[1] - 65536) \div 1024), 56320 + ((cps[1] - 65536) % 1024)>>
            \o FromCodePoints(Tail(cps))
    ELSE <<cps[1]>> \o FromCodePoints(Tail(cps))

\* The simple lower-case mapping of one code point.
LowerCodePoint(c) ==
    IF c < 128 THEN (IF 65 <= c /\ c <= 90 THEN c + 32 ELSE c)
    ELSE IF \E r \in UnicodeLowerRanges :
                r[1] <= c /\ c <= r[2] /\ (c - r[1]) % r[4] = 0
    THEN c + (CHOOSE r \in UnicodeLowerRanges :
                r[1] <= c /\ c <= r[2] /\ (c - r[1]) % r[4] = 0)[3]
    ELSE c

\* Final_Sigma: position i is preceded by a cased letter and then only
\* case-ignorable code points, and is not followed by case-ignorable code
\* points and then a cased letter.
FinalSigma(cps, i) ==
    /\ \E j \in 1..(i - 1) :
        /\ ~InRanges(cps[j], CaseIgnorableRanges)
        /\ InRanges(cps[j], CasedRanges)
        /\ \A k \in (j + 1)..(i - 1) : InRanges(cps[k], CaseIgnorableRanges)
    /\ ~\E j \in (i + 1)..Len(cps) :
        /\ ~InRanges(cps[j], CaseIgnorableRanges)
        /\ InRanges(cps[j], CasedRanges)
        /\ \A k \in (i + 1)..(j - 1) : InRanges(cps[k], CaseIgnorableRanges)

\* The lower-case code points of position i: capital I with dot above becomes
\* i and a combining dot, capital sigma becomes the final sigma where
\* Final_Sigma holds, every other code point has its simple mapping.
LowerAt(cps, i) ==
    IF cps[i] = 304 THEN <<105, 775>>
    ELSE IF cps[i] = 931 THEN (IF FinalSigma(cps, i) THEN <<962>> ELSE <<963>>)
    ELSE <<LowerCodePoint(cps[i])>>

RECURSIVE LowerFrom(_, _)
LowerFrom(cps, i) ==
    IF i > Len(cps) THEN <<>> ELSE LowerAt(cps, i) \o LowerFrom(cps, i + 1)

\* String.prototype.toLowerCase
ToLowerCase(s) == FromCodePoints(LowerFrom(ToCodePoints(s), 1))

\* String.prototype.startsWith
StartsWith(s, prefix) ==
    /\ Len(s) >= Len(prefix)
    /\ SubSeq(s, 1, Len(prefix)) = prefix

S_0x     == <<48, 120>>
S_WETH   == <<87, 69, 84, 72>>
S_weth   == <<119, 101, 116, 104>>
S_ETH    == <<69, 84, 72>>
S_sUSD   == <<115, 85, 83, 68>>
S_snxUSD == <<115, 110, 120, 85, 83, 68>>
S_USDC   == <<85, 83, 68, 67>>
S_usdc   == <<117, 115, 100, 99>>
S_LINK   == <<76, 73, 78, 75>>
S_link   == <<108, 105, 110, 107>>
S_DAI    == <<68, 65, 73>>
\* 'LIN' followed by the Kelvin sign (U+212A), whose lower case is 'k'.
S_LIN_Kelvin == <<76, 73, 78, 8490>>

\* ------------------------------------------------------------------ numbers
\* ethers constants.MaxUint256, at the model's width.
MaxUint256 == 2^UintBits - 1

\* wei(x): a BigNumber is taken as the base-unit value of an 18-decimal Wei.
wei(x) == [bn |-> x, p |-> 18]

\* Wei.lt(BigNumber): compares the base-unit values.
WeiLt(w, other) == w.bn < other

\* ------------------------------------------------------------------ schema
\* CollateralConfigurationSchema: every field present with its type, and
\* tokenAddress starting with '0x'.
SchemaAccepts(x) ==
    /\ x.depositingEnabled # None
    /\ x.issuanceRatioD18 # None
    /\ x.liquidationRatioD18 # None
    /\ x.liquidationRewardD18 # None
    /\ x.oracleNodeId # None
    /\ x.tokenAddress # None
    /\ StartsWith(x.tokenAddress[1], S_0x)
    /\ x.minDelegationD18 # None

\* CollateralConfigurationSchema.parse on an accepted record: the BigNumber
\* fields are transformed with wei.
SchemaParse(x) ==
    [depositingEnabled    |-> x.depositingEnabled[1],
     issuanceRatioD18     |-> wei(x.issuanceRatioD18[1]),
     liquidationRatioD18  |-> wei(x.liquidationRatioD18[1]),
     liquidationRewardD18 |-> wei(x.liquidationRewardD18[1]),
     oracleNodeId         |-> x.oracleNodeId[1],
     tokenAddress         |-> x.tokenAddress[1],
     minDelegationD18     |-> wei(x.minDelegationD18[1])]

\* tokenConfigsRaw.map(parse): None when any record throws.
ParseConfigs(tokenConfigsRaw) ==
    IF \A i \in DOMAIN tokenConfigsRaw : SchemaAccepts(tokenConfigsRaw[i])
    THEN Some([i \in 1..Len(tokenConfigsRaw) |-> SchemaParse(tokenConfigsRaw[i])])
    ELSE None

\* ------------------------------------------------------------------ loaders
\* loadSymbols: one { target, callData } call per configuration, in order.
SymbolCalls(configs) ==
    [i \in 1..Len(configs) |->
        [target |-> configs[i].tokenAddress, callData |-> "symbol()"]]

\* loadPrices: one encoded getCollateralPrice(tokenAddress) per configuration.
PriceCalls(configs) ==
    [i \in 1..Len(configs) |->
        [fn |-> "getCollateralPrice", arg |-> configs[i].tokenAddress]]

\* Variant of DecodeSymbols with a per-item fallback: an item that does not
\* decode becomes the empty string.
DecodeSymbolsOrEmpty(returnData) ==
    Some([i \in 1..Len(returnData) |->
        IF returnData[i] = None THEN <<>> ELSE returnData[i][1]])

\* returnData.map(decode + SymbolSchema.parse): None when any item throws.
DecodeSymbols(returnData) ==
    IF \A i \in DOMAIN returnData : returnData[i] # None
    THEN Some([i \in 1..Len(returnData) |-> returnData[i][1]])
    ELSE None

\* multicallResult.map(decode + PriceSchema.parse): None when any item throws.
DecodePrices(multicallResult) ==
    IF \A i \in DOMAIN multicallResult : multicallResult[i] # None
    THEN Some([i \in 1..Len(multicallResult) |-> wei(multicallResult[i][1])])
    ELSE None

\* ------------------------------------------------------------------ join
\* Variant of DisplaySymbol that compares ignoring letter case.
DisplaySymbolIgnoringCase(symbol) ==
    IF ToLowerCase(symbol) = ToLowerCase(S_WETH) THEN S_ETH ELSE symbol

\* symbols[i] === 'WETH' ? 'ETH' : symbols[i]
DisplaySymbol(symbol) == IF symbol = S_WETH THEN S_ETH ELSE symbol

\* Variant of Join that gives every record the first price.
JoinFirstPrice(configs, symbols, prices) ==
    [i \in 1..Len(configs) |->
        [depositingEnabled    |-> configs[i].depositingEnabled,
         issuanceRatioD18     |-> configs[i].issuanceRatioD18,
         liquidationRatioD18  |-> configs[i].liquidationRatioD18,
         liquidationRewardD18 |-> configs[i].liquidationRewardD18,
         minDelegationD18     |-> configs[i].minDelegationD18,
         oracleNodeId         |-> configs[i].oracleNodeId,
         tokenAddress         |-> configs[i].tokenAddress,
         price                |-> prices[1],
         symbol               |-> symbols[i],
         displaySymbol        |-> DisplaySymbol(symbols[i])]]

\* tokenConfigs.map((config, i) => ({ ...config fields, price: prices[i],
\* symbol: symbols[i], displaySymbol }))
Join(configs, symbols, prices) ==
    [i \in 1..Len(configs) |->
        [depositingEnabled    |-> configs[i].depositingEnabled,
         issuanceRatioD18     |-> configs[i].issuanceRatioD18,
         liquidationRatioD18  |-> configs[i].liquidationRatioD18,
         liquidationRewardD18 |-> configs[i].liquidationRewardD18,
         minDelegationD18     |-> configs[i].minDelegationD18,
         oracleNodeId         |-> configs[i].oracleNodeId,
         tokenAddress         |-> configs[i].tokenAddress,
         price                |-> prices[i],
         symbol               |-> symbols[i],
         displaySymbol        |-> DisplaySymbol(symbols[i])]]

\* ------------------------------------------------------------------ filter
\* Variant of Keeps with lte in place of lt.
KeepsLte(x) ==
    IF x.symbol = S_sUSD \/ x.symbol = S_snxUSD
    THEN FALSE
    ELSE x.minDelegationD18.bn <= MaxUint256

\* Variant of Keeps that excludes 'sUSD' alone.
KeepsWithoutSnxUSD(x) ==
    IF x.symbol = S_sUSD
    THEN FALSE
    ELSE WeiLt(x.minDelegationD18, MaxUint256)

\* The callback of collateralTypes.filter.
Keeps(x) ==
    IF x.symbol = S_sUSD \/ x.symbol = S_snxUSD
    THEN FALSE
    ELSE WeiLt(x.minDelegationD18, MaxUint256)

\* Array.prototype.filter with the callback above.
RECURSIVE FilterKept(_)
FilterKept(xs) ==
    IF xs = <<>> THEN <<>>
    ELSE IF Keeps(Head(xs)) THEN <<Head(xs)>> \o FilterKept(Tail(xs))
         ELSE FilterKept(Tail(xs))

\* What queryFn returns from the loaded list.
QueryResult(types, flag) ==
    IF flag THEN types ELSE FilterKept(types)

\* ------------------------------------------------------------------ selector
RECURSIVE FindBySymbol(_, _)
\* Array.prototype.find: the first element whose lower-cased symbol equals the
\* lower-cased input, undefined when there is none.
FindBySymbol(xs, sym) ==
    IF xs = <<>> THEN None
    ELSE IF ToLowerCase(Head(xs).symbol) = ToLowerCase(sym)
         THEN Some(Head(xs))
         ELSE FindBySymbol(Tail(xs), sym)

\* Variant of FindBySymbol that compares the symbols as they are.
RECURSIVE FindBySymbolExact(_, _)
FindBySymbolExact(xs, sym) ==
    IF xs = <<>> THEN None
    ELSE IF Head(xs).symbol = sym
         THEN Some(Head(xs))
         ELSE FindBySymbolExact(Tail(xs), sym)

\* Variant of SelectCollateralType with the case-sensitive find.
SelectCollateralTypeExact(types, sym) ==
    IF types = None \/ Len(types[1]) = 0 THEN None
    ELSE IF sym = None \/ sym[1] = <<>>
         THEN Some(types[1][1])
         ELSE FindBySymbolExact(types[1], sym[1])

\* The useMemo body of useCollateralType. The collection and the symbol may
\* be undefined (None); the empty string is falsy like undefined.
SelectCollateralType(types, sym) ==
    IF types = None \/ Len(types[1]) = 0 THEN None
    ELSE IF sym = None \/ sym[1] = <<>>
         THEN Some(types[1][1])
         ELSE FindBySymbol(types[1], sym[1])

\* ------------------------------------------------------------------ contracts
\* The contracts' answers, which the hooks only read. Token addresses:
A_WETH   == <<48, 120, 65>>
A_weth   == <<48, 120, 66>>
A_SNX    == <<48, 120, 67>>
A_sUSD   == <<48, 120, 68>>
A_snxUSD == <<48, 120, 69>>
A_USDC   == <<48, 120, 70>>
A_noSym  == <<48, 120, 49>>
A_noPx   == <<48, 120, 50>>
A_bad    == <<65, 48, 120>>
A_LINK   == <<48, 120, 51>>
A_link   == <<48, 120, 52>>

RawConfig(dep, iss, liq, rew, node, addr, minDel) ==
    [depositingEnabled    |-> Some(dep),
     issuanceRatioD18     |-> Some(iss),
     liquidationRatioD18  |-> Some(liq),
     liquidationRewardD18 |-> Some(rew),
     oracleNodeId         |-> Some(node),
     tokenAddress         |-> Some(addr),
     minDelegationD18     |-> minDel]

\* Records getCollateralConfigurations may return, every read of which
\* succeeds.
SelectableConfigs ==
    { RawConfig(TRUE,  4, 2, 1, "n1", A_LINK,   Some(1)),
      RawConfig(FALSE, 5, 3, 2, "n2", A_link,   Some(0)),
      RawConfig(TRUE,  1, 1, 0, "n4", A_sUSD,   Some(3)),
      RawConfig(TRUE,  7, 5, 4, "n6", A_USDC,   Some(MaxUint256)) }

ListedConfigs ==
    { RawConfig(TRUE,  4, 2, 1, "n1", A_WETH,   Some(1)),
      RawConfig(FALSE, 5, 3, 2, "n2", A_weth,   Some(MaxUint256 - 1)),
      RawConfig(TRUE,  1, 1, 0, "n4", A_sUSD,   Some(3)),
      RawConfig(FALSE, 1, 1, 0, "n5", A_snxUSD, Some(0)),
      RawConfig(TRUE,  7, 5, 4, "n6", A_USDC,   Some(MaxUint256)) }

\* Records with a fault: a token whose symbol() does not decode, one whose
\* price does not decode, a tokenAddress that does not start with '0x', and a
\* record without minDelegationD18.
FaultyConfigs ==
    { RawConfig(TRUE,  8, 6, 5, "n7", A_noSym,  Some(2)),
      RawConfig(TRUE,  9, 7, 6, "n8", A_noPx,   Some(3)),
      RawConfig(TRUE,  2, 2, 2, "n9", A_bad,    Some(4)),
      RawConfig(TRUE,  3, 3, 3, "n0", A_SNX,    None) }

RawConfigs == ListedConfigs \cup FaultyConfigs

\* The return data of symbol() at an address, decoded: None when the bytes do
\* not decode to a string.
ERC20Symbol(addr) ==
    CASE addr = A_WETH   -> Some(S_WETH)
      [] addr = A_weth   -> Some(S_weth)
      [] addr = A_sUSD   -> Some(S_sUSD)
      [] addr = A_snxUSD -> Some(S_snxUSD)
      [] addr = A_USDC   -> Some(S_USDC)
      [] addr = A_LINK   -> Some(S_LINK)
      [] addr = A_link   -> Some(S_link)
      [] addr = A_noPx   -> Some(S_DAI)
      [] OTHER           -> None

\* The return data of getCollateralPrice(address), decoded: None when it is
\* no BigNumber.
CollateralPrice(addr) ==
    CASE addr = A_WETH   -> Some(20)
      [] addr = A_weth   -> Some(21)
      [] addr = A_sUSD   -> Some(1)
      [] addr = A_snxUSD -> Some(1)
      [] addr = A_USDC   -> Some(MaxUint256)
      [] addr = A_noSym  -> Some(5)
      [] addr = A_LINK   -> Some(7)
      [] addr = A_link   -> Some(8)
      [] OTHER           -> None

\* Multicall3.callStatic.aggregate(calls).returnData
AggregateReturnData(calls) == [i \in 1..Len(calls) |-> ERC20Symbol(calls[i].target)]

\* CoreProxy.callStatic.multicall(calls)
MulticallResult(calls) == [i \in 1..Len(calls) |-> CollateralPrice(calls[i].arg)]

\* ------------------------------------------------------------------ query
Truthy(h) == h # "undefined"

\* a && b
JsAnd(a, b) == IF Truthy(a) THEN b ELSE a

\* enabled: Boolean(CoreProxy && Multicall3)
QueryEnabled(core, multi) == Truthy(JsAnd(core, multi))

\* Variant of HandlesMissing with && in place of ||.
HandlesMissingBoth(core, multi) == ~Truthy(core) /\ ~Truthy(multi)

\* !CoreProxy || !Multicall3
HandlesMissing(core, multi) == ~Truthy(core) \/ ~Truthy(multi)

\* Variant of PromiseAllLoaders in which loadPrices is not invoked.
OnlySymbols == {"symbols"}

\* The loaders invoked in the array given to Promise.all.
PromiseAllLoaders == {"symbols", "prices"}

\* Variant of SelectorFlag: the selector on the inclusive collection.
SelectorFlagInclusive == TRUE

\* useCollateralType calls useCollateralTypes() with the default argument.
SelectorFlag == FALSE

\* What useQuery hands out as data: the cached data, else placeholderData
\* ([]) while the entry is loading, else undefined.
HookData(entry) ==
    IF entry.data # None THEN entry.data
    ELSE IF entry.status = "loading" THEN Some(<<>>)
    ELSE None

E_none     == "none"
E_missing  == "Query should not be enabled when contracts missing"
E_call     == "call failed"
E_schema   == "ZodError"
E_decode   == "decode failed"

NoPromise == [state |-> "none", value |-> <<>>, error |-> E_none]
Pending   == [state |-> "pending", value |-> <<>>, error |-> E_none]
Fulfilled(v) == [state |-> "fulfilled", value |-> v, error |-> E_none]
RejectedWith(e) == [state |-> "rejected", value |-> <<>>, error |-> e]

\* A cache entry before its first fetch.
FreshEntry == [status |-> "loading", data |-> None, error |-> E_none]

\* The locals of one queryFn run. pc is the await the run is suspended at:
\* "configs" (line 77), "batches" (line 80, Promise.all pending), "all"
\* (Promise.all settled, loadCollateralTypes not yet resumed), "loaded"
\* (loadCollateralTypes settled, queryFn not yet resumed at line 109),
\* "returned" (queryFn settled, cache entry not yet written), "resolved" or
\* "rejected" (cache entry written); "idle" before the first run.
IdleRun ==
    [pc              |-> "idle",
     captured        |-> [CoreProxy |-> "undefined", Multicall3 |-> "undefined"],
     tokenConfigs    |-> <<>>,
     symbolsP        |-> NoPromise,
     pricesP         |-> NoPromise,
     allP            |-> [state |-> "none", seen |-> {}, error |-> E_none],
     collateralTypes |-> None,
     result          |-> None,
     error           |-> E_none,
     nConfigCalls    |-> 0,
     nSymbolCalls    |-> 0,
     nPriceCalls     |-> 0,
     arrival         |-> <<>>]

\* A queued microtask: the continuation `job` of the run of entry `key`; ok
\* tells whether the awaited contract call answered or failed.
Job(k, j, ok) == [key |-> k, job |-> j, ok |-> ok]

\* The lists getCollateralConfigurations may return: the core contract keeps
\* one configuration per collateral token, so no token is listed twice.
ConfigLists(configs) ==
    { l \in UNION { [1..n -> configs] : n \in 0..MaxConfigs } :
        \A i, j \in DOMAIN l : i # j => l[i].tokenAddress # l[j].tokenAddress }

\* Before the first fetch, with the contract's list drawn from `configs`.
InitOver(configs) ==
    /\ CoreProxy = "undefined"
    /\ Multicall3 = "undefined"
    /\ chainConfigs \in ConfigLists(configs)
    /\ query = [f \in BOOLEAN |-> FreshEntry]
    /\ run = [f \in BOOLEAN |-> IdleRun]
    /\ micro = <<>>
    /\ collateralSymbol = None
    /\ rendered = HookData(FreshEntry)
    /\ selected = None
    /\ imports = <<>>

\* useCoreProxy resolves the core-contract handle.
LoadCoreProxy ==
    /\ micro = <<>>
    /\ CoreProxy = "undefined"
    /\ CoreProxy' = "contract"
    /\ UNCHANGED <<Multicall3, chainConfigs, query, run, micro, selectVars, imports>>

\* useMulticall3 resolves the multicall handle.
LoadMulticall3 ==
    /\ micro = <<>>
    /\ Multicall3 = "undefined"
    /\ Multicall3' = "contract"
    /\ UNCHANGED <<CoreProxy, chainConfigs, query, run, micro, selectVars, imports>>

\* The queryFn of the entry of `flag` starts: because the query is enabled, or
\* on an explicit refetch. The entries of the two flags are fetched
\* independently, each run with its own locals. While a fetch of the entry is
\* in flight the library starts no other, except that a refetch of an entry
\* that has data cancels the fetch in flight, whose outcome the library then
\* ignores, and starts anew. The entry shows 'loading' while it has no data.
\* A run without both handles throws at once; any other calls
\* getCollateralConfigurations and awaits it. A batch of an earlier run that
\* has not answered when the next run starts can change nothing any more and
\* is forgotten.
StartQuery(flag, refetch) ==
    /\ micro = <<>>
    /\ \/ run[flag].pc \in {"idle", "resolved", "rejected"}
       \/ refetch /\ query[flag].data # None
    /\ refetch \/ QueryEnabled(CoreProxy, Multicall3)
    /\ query' = [query EXCEPT ![flag] =
                    IF @.data = None THEN FreshEntry ELSE @]
    /\ IF HandlesMissing(CoreProxy, Multicall3)
       THEN /\ run' = [run EXCEPT ![flag] =
                        [IdleRun EXCEPT
                            !.pc = "returned",
                            !.captured = [CoreProxy |-> CoreProxy,
                                          Multicall3 |-> Multicall3],
                            !.error = E_missing]]
            /\ micro' = <<Job(flag, "store", TRUE)>>
       ELSE /\ run' = [run EXCEPT ![flag] =
                        [IdleRun EXCEPT
                            !.pc = "configs",
                            !.captured = [CoreProxy |-> CoreProxy,
                                          Multicall3 |-> Multicall3],
                            !.nConfigCalls = 1]]
            /\ micro' = <<>>
    /\ UNCHANGED <<CoreProxy, Multicall3, chainConfigs, selectVars, imports>>

\* getCollateralConfigurations answers (ok) or fails: the continuation of the
\* await at line 77 is queued.
ConfigsArrive(flag, ok) ==
    /\ micro = <<>>
    /\ run[flag].pc = "configs"
    /\ micro' = <<Job(flag, "configs", ok)>>
    /\ UNCHANGED <<CoreProxy, Multicall3, chainConfigs, query, run, selectVars, imports>>

\* loadCollateralTypes resumes after line 77. A failed call or a record that
\* does not validate rejects its promise. Otherwise Promise.all invokes
\* loadSymbols and loadPrices, each of which issues its batch before it first
\* awaits, and loadCollateralTypes awaits Promise.all.
ConfigsResume ==
    /\ micro # <<>>
    /\ Head(micro).job = "configs"
    /\ LET flag == Head(micro).key
           ok == Head(micro).ok
           r == run[flag]
       IN  IF ~ok \/ ParseConfigs(chainConfigs) = None
           THEN /\ run' = [run EXCEPT ![flag] =
                            [r EXCEPT !.pc = "loaded",
                                      !.error = IF ~ok THEN E_call ELSE E_schema]]
                /\ micro' = Append(Tail(micro), Job(flag, "queryFn", TRUE))
           ELSE /\ run' = [run EXCEPT ![flag] =
                            [r EXCEPT
                                !.pc = "batches",
                                !.tokenConfigs = ParseConfigs(chainConfigs)[1],
                                !.symbolsP = IF "symbols" \in PromiseAllLoaders
                                             THEN Pending ELSE @,
                                !.nSymbolCalls = IF "symbols" \in PromiseAllLoaders
                                                 THEN @ + 1 ELSE @,
                                !.pricesP = IF "prices" \in PromiseAllLoaders
                                            THEN Pending ELSE @,
                                !.nPriceCalls = IF "prices" \in PromiseAllLoaders
                                                THEN @ + 1 ELSE @,
                                !.allP = [state |-> "pending", seen |-> {},
                                          error |-> E_none]]]
                /\ micro' = Tail(micro)
    /\ UNCHANGED <<CoreProxy, Multicall3, chainConfigs, query, selectVars, imports>>

\* The symbol batch answers or fails: the continuation of the await at line
\* 43 is queued.
SymbolsArrive(flag, ok) ==
    /\ micro = <<>>
    /\ run[flag].symbolsP.state = "pending"
    /\ micro' = <<Job(flag, "symbols", ok)>>
    /\ UNCHANGED <<CoreProxy, Multicall3, chainConfigs, query, run, selectVars, imports>>

\* The price batch answers or fails: the continuation of the await at line
\* 61 is queued.
PricesArrive(flag, ok) ==
    /\ micro = <<>>
    /\ run[flag].pricesP.state = "pending"
    /\ micro' = <<Job(flag, "prices", ok)>>
    /\ UNCHANGED <<CoreProxy, Multicall3, chainConfigs, query, run, selectVars, imports>>

\* Both batches answer in the same turn of the event loop (a provider that
\* batches its requests): both continuations are queued, `first` first.
BatchesArrive(flag, first, okS, okP) ==
    /\ micro = <<>>
    /\ run[flag].symbolsP.state = "pending"
    /\ run[flag].pricesP.state = "pending"
    /\ micro' = IF first = "symbols"
                THEN <<Job(flag, "symbols", okS), Job(flag, "prices", okP)>>
                ELSE <<Job(flag, "prices", okP), Job(flag, "symbols", okS)>>
    /\ UNCHANGED <<CoreProxy, Multicall3, chainConfigs, query, run, selectVars, imports>>

\* The promise of loadSymbols after the aggregate call answered (ok) or failed.
SymbolsOutcome(ok, configs) ==
    IF ~ok THEN RejectedWith(E_call)
    ELSE IF DecodeSymbols(AggregateReturnData(SymbolCalls(configs))) = None
    THEN RejectedWith(E_decode)
    ELSE Fulfilled(DecodeSymbols(AggregateReturnData(SymbolCalls(configs)))[1])

\* The promise of loadPrices after the multicall answered (ok) or failed.
PricesOutcome(ok, configs) ==
    IF ~ok THEN RejectedWith(E_call)
    ELSE IF DecodePrices(MulticallResult(PriceCalls(configs))) = None
    THEN RejectedWith(E_decode)
    ELSE Fulfilled(DecodePrices(MulticallResult(PriceCalls(configs)))[1])

\* loadSymbols resumes after line 43, decodes and settles its promise; the
\* reaction of Promise.all to it is queued.
SymbolsResume ==
    /\ micro # <<>>
    /\ Head(micro).job = "symbols"
    /\ LET flag == Head(micro).key
           r == run[flag]
       IN  /\ run' = [run EXCEPT ![flag] =
                        [r EXCEPT
                            !.symbolsP = SymbolsOutcome(Head(micro).ok, r.tokenConfigs),
                            !.arrival = Append(@, "symbols")]]
           /\ micro' = Append(Tail(micro), Job(flag, "allSymbols", TRUE))
    /\ UNCHANGED <<CoreProxy, Multicall3, chainConfigs, query, selectVars, imports>>

\* loadPrices resumes after line 61, decodes and settles its promise; the
\* reaction of Promise.all to it is queued.
PricesResume ==
    /\ micro # <<>>
    /\ Head(micro).job = "prices"
    /\ LET flag == Head(micro).key
           r == run[flag]
       IN  /\ run' = [run EXCEPT ![flag] =
                        [r EXCEPT
                            !.pricesP = PricesOutcome(Head(micro).ok, r.tokenConfigs),
                            !.arrival = Append(@, "prices")]]
           /\ micro' = Append(Tail(micro), Job(flag, "allPrices", TRUE))
    /\ UNCHANGED <<CoreProxy, Multicall3, chainConfigs, query, selectVars, imports>>

\* Promise.all after the reaction to element `which`, whose promise is p: a
\* settled Promise.all stays as it is; a rejected element rejects it with that
\* element's error; the fulfilment of the last element fulfils it.
PromiseAll(a, which, p) ==
    IF a.state # "pending" THEN a
    ELSE IF p.state = "rejected"
    THEN [state |-> "rejected", seen |-> a.seen, error |-> p.error]
    ELSE IF a.seen \cup {which} = PromiseAllLoaders
    THEN [state |-> "fulfilled", seen |-> a.seen \cup {which}, error |-> E_none]
    ELSE [state |-> "pending", seen |-> a.seen \cup {which}, error |-> E_none]

\* Promise.all reacts to a settled loader. When this settles Promise.all, the
\* continuation of the await at line 80 is queued.
PromiseAllReact ==
    /\ micro # <<>>
    /\ Head(micro).job \in {"allSymbols", "allPrices"}
    /\ LET flag == Head(micro).key
           r == run[flag]
           which == IF Head(micro).job = "allSymbols" THEN "symbols" ELSE "prices"
           p == IF which = "symbols" THEN r.symbolsP ELSE r.pricesP
           a == PromiseAll(r.allP, which, p)
       IN  IF r.allP.state = "pending" /\ a.state # "pending"
           THEN /\ run' = [run EXCEPT ![flag] = [r EXCEPT !.allP = a, !.pc = "all"]]
                /\ micro' = Append(Tail(micro), Job(flag, "load", TRUE))
           ELSE /\ run' = [run EXCEPT ![flag] = [r EXCEPT !.allP = a]]
                /\ micro' = Tail(micro)
    /\ UNCHANGED <<CoreProxy, Multicall3, chainConfigs, query, selectVars, imports>>

\* loadCollateralTypes resumes after line 80: it throws what Promise.all
\* rejected with, or joins the records and returns them. The continuation of
\* the await at line 109 is queued.
LoadResume ==
    /\ micro # <<>>
    /\ Head(micro).job = "load"
    /\ LET flag == Head(micro).key
           r == run[flag]
       IN  /\ run' = [run EXCEPT ![flag] =
                        IF r.allP.state = "rejected"
                        THEN [r EXCEPT !.pc = "loaded", !.error = r.allP.error]
                        ELSE [r EXCEPT
                                !.pc = "loaded",
                                !.collateralTypes =
                                    Some(Join(r.tokenConfigs, r.symbolsP.value,
                                              r.pricesP.value))]]
           /\ micro' = Append(Tail(micro), Job(flag, "queryFn", TRUE))
    /\ UNCHANGED <<CoreProxy, Multicall3, chainConfigs, query, selectVars, imports>>

\* The queryFn resumes after line 109: it throws what loadCollateralTypes
\* rejected with, or returns the list, filtered unless the flag is set. The
\* library's handler of the settled queryFn is queued.
QueryFnResume ==
    /\ micro # <<>>
    /\ Head(micro).job = "queryFn"
    /\ LET flag == Head(micro).key
           r == run[flag]
       IN  /\ run' = [run EXCEPT ![flag] =
                        IF r.collateralTypes = None
                        THEN [r EXCEPT !.pc = "returned"]
                        ELSE [r EXCEPT
                                !.pc = "returned",
                                !.result = Some(QueryResult(r.collateralTypes[1], flag))]]
           /\ micro' = Append(Tail(micro), Job(flag, "store", TRUE))
    /\ UNCHANGED <<CoreProxy, Multicall3, chainConfigs, query, selectVars, imports>>

\* The library writes the settled queryFn to the cache entry: the data on
\* success; on failure the error, the entry keeping the data it had.
CacheStore ==
    /\ micro # <<>>
    /\ Head(micro).job = "store"
    /\ LET flag == Head(micro).key
           r == run[flag]
       IN  IF r.result = None
           THEN /\ run' = [run EXCEPT ![flag] = [r EXCEPT !.pc = "rejected"]]
                /\ query' = [query EXCEPT ![flag] =
                                [status |-> "error", data |-> @.data, error |-> r.error]]
           ELSE /\ run' = [run EXCEPT ![flag] = [r EXCEPT !.pc = "resolved"]]
                /\ query' = [query EXCEPT ![flag] =
                                [status |-> "success", data |-> r.result,
                                 error |-> E_none]]
    /\ micro' = Tail(micro)
    /\ UNCHANGED <<CoreProxy, Multicall3, chainConfigs, selectVars, imports>>

\* A component renders useCollateralType(sym): the hook reads the collection
\* of the default entry as it is at this render and selects from it. What it
\* returned stays with the component until its next render.
UseCollateralType(sym) ==
    /\ micro = <<>>
    /\ collateralSymbol' = sym
    /\ rendered' = HookData(query[SelectorFlag])
    /\ selected' = SelectCollateralType(rendered', sym)
    /\ UNCHANGED <<loadVars, imports>>

\* The symbols components ask useCollateralType for in the model: none, the
\* empty string, and symbols in several spellings.
SelectorInputs ==
    { None, Some(<<>>), Some(S_LIN_Kelvin), Some(S_sUSD), Some(S_usdc) }

Init == InitOver(SelectableConfigs)

\* The steps of the fetches: tasks, then the microtasks they queue.
NextLoad ==
    \/ LoadCoreProxy
    \/ LoadMulticall3
    \/ \E flag \in BOOLEAN, refetch \in BOOLEAN : StartQuery(flag, refetch)
    \/ \E flag \in BOOLEAN, ok \in BOOLEAN : ConfigsArrive(flag, ok)
    \/ \E flag \in BOOLEAN, ok \in BOOLEAN : SymbolsArrive(flag, ok)
    \/ \E flag \in BOOLEAN, ok \in BOOLEAN : PricesArrive(flag, ok)
    \/ \E flag \in BOOLEAN, first \in {"symbols", "prices"}, okS \in BOOLEAN, okP \in BOOLEAN :
            BatchesArrive(flag, first, okS, okP)
    \/ ConfigsResume
    \/ SymbolsResume
    \/ PricesResume
    \/ PromiseAllReact
    \/ LoadResume
    \/ QueryFnResume
    \/ CacheStore

\* The steps of the fetches and the renders of the selector. Here every batch
\* answers; a fetch still fails when a handle is missing or the
\* configurations cannot be read.
Next ==
    \/ LoadCoreProxy
    \/ LoadMulticall3
    \/ \E flag \in BOOLEAN, refetch \in BOOLEAN : StartQuery(flag, refetch)
    \/ \E flag \in BOOLEAN, ok \in BOOLEAN : ConfigsArrive(flag, ok)
    \/ \E flag \in BOOLEAN : SymbolsArrive(flag, TRUE)
    \/ \E flag \in BOOLEAN : PricesArrive(flag, TRUE)
    \/ \E flag \in BOOLEAN, first \in {"symbols", "prices"} :
            BatchesArrive(flag, first, TRUE, TRUE)
    \/ ConfigsResume
    \/ SymbolsResume
    \/ PricesResume
    \/ PromiseAllReact
    \/ LoadResume
    \/ QueryFnResume
    \/ CacheStore
    \/ \E sym \in SelectorInputs : UseCollateralType(sym)

Spec == Init /\ [][Next]_vars

InitLoad == InitOver(RawConfigs)

SpecLoad == InitLoad /\ [][NextLoad]_vars

\* ------------------------------------------------------------------ imports
Digits == <<"0","1","2","3","4","5","6","7","8","9">>

RECURSIVE NatToString(_)
NatToString(n) ==
    IF n < 10 THEN Digits[n + 1]
    ELSE NatToString(n \div 10) \o Digits[(n % 10) + 1]

\* `${n}` for an integer n.
NumberToString(n) == IF n < 0 THEN "-" \o NatToString(-n) ELSE NatToString(n)

\* The default parameter value: preset = 'main' when the argument is undefined.
PresetOrDefault(p) == IF p = None THEN "main" ELSE p[1]

\* Variant of ImportKey without the default preset.
ImportKeyNoDefault(c, p) == NumberToString(c) \o "-" \o (IF p = None THEN "undefined" ELSE p[1])

\* `${chainId}-${preset}`
ImportKey(c, p) == NumberToString(c) \o "-" \o PresetOrDefault(p)

M_420 == "./420/PerpsMarketProxy"
M_84531_competition == "./84531-competition/PerpsMarketProxy"
E_load == "Cannot find module"

\* The promise importPerpsMarketProxy returns, as it is when the call returns.
\* A case of the switch resolves it to the import() of `target`, which is
\* pending while the module loads; the default case throws, and the function
\* being async, the throw is a promise rejected at once.
importPerpsMarketProxy(c, p) ==
    CASE ImportKey(c, p) = "420-main" ->
            [state |-> "pending", target |-> M_420, module |-> "", error |-> ""]
      [] ImportKey(c, p) = "84531-competition" ->
            [state |-> "pending", target |-> M_84531_competition, module |-> "",
             error |-> ""]
      [] OTHER ->
            [state |-> "rejected", target |-> "", module |-> "",
             error |-> "Unsupported chain " \o NumberToString(c) \o " for PerpsMarketProxy"]

\* The arguments importPerpsMarketProxy is called with in the model.
ChainIds == {0, 42, 420, 421, 4200, 84531, 8453, -420}
Presets ==
    { None, Some("main"), Some("competition"), Some("Main"), Some(""), Some("420-main") }

\* A caller calls importPerpsMarketProxy(c) or importPerpsMarketProxy(c, p);
\* calls made earlier may still be pending.
CallImport(c, p) ==
    /\ Len(imports) < MaxCalls
    /\ imports' = Append(imports,
                         [chainId |-> c, preset |-> p,
                          promise |-> importPerpsMarketProxy(c, p)])
    /\ UNCHANGED <<loadVars, selectVars>>

\* The import() of call i settles: with the module's namespace when the
\* module loads, with the loader's error when it does not.
ImportSettles(i, ok) ==
    /\ i \in DOMAIN imports
    /\ imports[i].promise.state = "pending"
    /\ imports' = [imports EXCEPT ![i].promise =
                    IF ok
                    THEN [@ EXCEPT !.state = "fulfilled",
                                    !.module = imports[i].promise.target]
                    ELSE [@ EXCEPT !.state = "rejected", !.error = E_load]]
    /\ UNCHANGED <<loadVars, selectVars>>

InitImport == InitOver({})

NextImport ==
    \/ \E c \in ChainIds, p \in Presets : CallImport(c, p)
    \/ \E i \in 1..MaxCalls, ok \in BOOLEAN : ImportSettles(i, ok)

SpecImport == InitImport /\ [][NextImport]_vars

\* ------------------------------------------------------------------ properties
Range(xs) == { xs[i] : i \in DOMAIN xs }

\* C1: a load that returns yields one record per configuration, in the
\* configurations' order: record i carries the seven fields of validated
\* configuration i (the contract's values, the numbers as Wei), the i-th
\* decoded symbol and the i-th decoded price, which are those of the token at
\* the record's address.
C1_JoinKeepsOrderAndCount ==
    \A k \in BOOLEAN :
        LET r == run[k]
            out == r.collateralTypes[1]
        IN  r.collateralTypes # None =>
            /\ Len(out) = Len(chainConfigs)
            /\ Len(r.symbolsP.value) = Len(chainConfigs)
            /\ Len(r.pricesP.value) = Len(chainConfigs)
            /\ \A i \in 1..Len(chainConfigs) :
                /\ out[i].depositingEnabled = r.tokenConfigs[i].depositingEnabled
                /\ out[i].issuanceRatioD18 = r.tokenConfigs[i].issuanceRatioD18
                /\ out[i].liquidationRatioD18 = r.tokenConfigs[i].liquidationRatioD18
                /\ out[i].liquidationRewardD18 = r.tokenConfigs[i].liquidationRewardD18
                /\ out[i].minDelegationD18 = r.tokenConfigs[i].minDelegationD18
                /\ out[i].oracleNodeId = r.tokenConfigs[i].oracleNodeId
                /\ out[i].tokenAddress = r.tokenConfigs[i].tokenAddress
                /\ out[i].depositingEnabled = chainConfigs[i].depositingEnabled[1]
                /\ out[i].issuanceRatioD18.bn = chainConfigs[i].issuanceRatioD18[1]
                /\ out[i].liquidationRatioD18.bn = chainConfigs[i].liquidationRatioD18[1]
                /\ out[i].liquidationRewardD18.bn = chainConfigs[i].liquidationRewardD18[1]
                /\ out[i].minDelegationD18.bn = chainConfigs[i].minDelegationD18[1]
                /\ out[i].oracleNodeId = chainConfigs[i].oracleNodeId[1]
                /\ out[i].tokenAddress = chainConfigs[i].tokenAddress[1]
                /\ out[i].symbol = r.symbolsP.value[i]
                /\ out[i].price = r.pricesP.value[i]
                /\ Some(out[i].symbol) = ERC20Symbol(chainConfigs[i].tokenAddress[1])
                /\ Some(out[i].price.bn) = CollateralPrice(chainConfigs[i].tokenAddress[1])

\* A load returned two records that differ in every joined part.
C1_Witness ==
    \E k \in BOOLEAN :
        /\ run[k].collateralTypes # None
        /\ Len(run[k].collateralTypes[1]) = 2
        /\ run[k].collateralTypes[1][1].symbol = S_USDC
        /\ run[k].collateralTypes[1][2].symbol = S_WETH
        /\ run[k].collateralTypes[1][1].price # run[k].collateralTypes[1][2].price

\* C2: in every record a load returns, a queryFn returns or the cache holds,
\* displaySymbol is "ETH" when symbol is exactly "WETH" and is symbol
\* otherwise, and symbol is what the token's symbol() returned.
C2_DisplaySymbol ==
    \A k \in BOOLEAN :
        \A r \in (IF run[k].collateralTypes = None THEN {}
                  ELSE Range(run[k].collateralTypes[1]))
                 \cup (IF run[k].result = None THEN {} ELSE Range(run[k].result[1]))
                 \cup (IF query[k].data = None THEN {} ELSE Range(query[k].data[1])) :
            /\ r.symbol = S_WETH => r.displaySymbol = S_ETH
            /\ r.symbol # S_WETH => r.displaySymbol = r.symbol
            /\ Some(r.symbol) = ERC20Symbol(r.tokenAddress)

\* A load returned a "WETH" record shown as "ETH" and a "weth" record shown
\* as it is.
C2_Witness ==
    \E k \in BOOLEAN :
        /\ run[k].collateralTypes # None
        /\ \E r \in Range(run[k].collateralTypes[1]) :
                r.symbol = S_WETH /\ r.displaySymbol = S_ETH
        /\ \E r \in Range(run[k].collateralTypes[1]) :
                r.symbol = S_weth /\ r.displaySymbol = S_weth

\* C3: a loaded record whose minimum delegation is MaxUint256 is not in what
\* a default queryFn returns and is in what an inclusive queryFn returns, and
\* the cache entries hold what the queryFns returned: the default entry never
\* holds such a record.
C3_DelegationOff ==
    /\ \A k \in BOOLEAN :
        /\ run[k].result # None =>
             \A r \in Range(run[k].collateralTypes[1]) :
                r.minDelegationD18.bn = MaxUint256 =>
                    IF k THEN r \in Range(run[k].result[1])
                    ELSE r \notin Range(run[k].result[1])
        /\ run[k].pc = "resolved" => query[k].data = run[k].result
    /\ query[FALSE].data # None =>
         \A r \in Range(query[FALSE].data[1]) : r.minDelegationD18.bn # MaxUint256

\* A default query dropped a delegation-disabled record (not excluded by its
\* symbol) that the inclusive entry holds.
C3_Witness ==
    /\ run[FALSE].pc = "resolved"
    /\ \E r \in Range(run[FALSE].collateralTypes[1]) :
        /\ r.minDelegationD18.bn = MaxUint256
        /\ r.symbol = S_USDC
        /\ query[TRUE].data # None
        /\ r \in Range(query[TRUE].data[1])
    /\ query[FALSE].data[1] # <<>>

\* C6: a load ends with a complete list or with an error and no records. It
\* returns only when the configuration call, both batches, every validation
\* and every decode succeeded; after any failure it throws, the queryFn
\* returns nothing and the cache entry gets the error. No call is made twice
\* in one run.
C6_NoPartialResult ==
    \A k \in BOOLEAN :
        LET r == run[k]
        IN  /\ r.collateralTypes # None =>
                /\ Len(r.collateralTypes[1]) = Len(chainConfigs)
                /\ \A i \in DOMAIN chainConfigs :
                    /\ SchemaAccepts(chainConfigs[i])
                    /\ ERC20Symbol(chainConfigs[i].tokenAddress[1]) # None
                    /\ CollateralPrice(chainConfigs[i].tokenAddress[1]) # None
                /\ r.symbolsP.state = "fulfilled"
                /\ r.pricesP.state = "fulfilled"
                /\ r.error = E_none
            /\ r.error # E_none => r.collateralTypes = None /\ r.result = None
            /\ r.pc = "resolved" =>
                /\ r.collateralTypes # None
                /\ r.result # None
                /\ query[k].status = "success"
            /\ r.pc = "rejected" =>
                /\ r.collateralTypes = None
                /\ r.error # E_none
                /\ query[k].status = "error"
                /\ query[k].error = r.error
            /\ r.symbolsP.state = "rejected" \/ r.pricesP.state = "rejected" =>
                /\ r.collateralTypes = None
                /\ r.pc \in {"batches", "all", "loaded", "returned", "rejected"}
                /\ r.pc \in {"loaded", "returned", "rejected"} => r.error # E_none
            /\ r.pc \notin {"idle", "configs"} /\ ParseConfigs(chainConfigs) = None =>
                /\ r.pc \in {"loaded", "returned", "rejected"}
                /\ r.error # E_none
                /\ r.nSymbolCalls = 0 /\ r.nPriceCalls = 0
            /\ r.nConfigCalls <= 1 /\ r.nSymbolCalls <= 1 /\ r.nPriceCalls <= 1

\* The symbols were loaded and one price did not decode: the load threw and
\* the error is in the cache entry.
C6_Witness ==
    \E k \in BOOLEAN :
        /\ run[k].pc = "rejected"
        /\ run[k].symbolsP.state = "fulfilled"
        /\ Len(run[k].symbolsP.value) = 2
        /\ run[k].pricesP.state = "rejected"
        /\ run[k].pricesP.error = E_decode
        /\ query[k].error = E_decode

\* C7: a default queryFn returns exactly the loaded records whose symbol is
\* neither 'sUSD' nor 'snxUSD' and whose minimum delegation is below
\* MaxUint256, in their order, so that an 'sUSD' or 'snxUSD' record is
\* removed whatever its minimum delegation; an inclusive queryFn returns the
\* loaded list, 'sUSD' and 'snxUSD' records included; the cache entry then
\* holds what the queryFn returned.
C7_DefaultFilter ==
    \A k \in BOOLEAN :
        /\ run[k].result # None =>
            /\ IF k
               THEN run[k].result = run[k].collateralTypes
               ELSE run[k].result =
                    Some(SelectSeq(run[k].collateralTypes[1],
                                   LAMBDA r : /\ r.symbol \notin {S_sUSD, S_snxUSD}
                                              /\ r.minDelegationD18.bn < MaxUint256))
            /\ \A r \in Range(run[k].collateralTypes[1]) :
                r.symbol \in {S_sUSD, S_snxUSD} =>
                    IF k THEN r \in Range(run[k].result[1])
                    ELSE r \notin Range(run[k].result[1])
        /\ run[k].pc = "resolved" => query[k].data = run[k].result /\ run[k].result # None

\* The contract lists an 'sUSD' record with minimum delegation 3 and an
\* 'snxUSD' record with minimum delegation 0: a default query removed both,
\* and the inclusive entry holds both, in the contract's order.
C7_Witness ==
    /\ run[FALSE].pc = "resolved"
    /\ Len(run[FALSE].collateralTypes[1]) = 2
    /\ run[FALSE].collateralTypes[1][1].symbol = S_sUSD
    /\ run[FALSE].collateralTypes[1][1].minDelegationD18.bn = 3
    /\ run[FALSE].collateralTypes[1][2].symbol = S_snxUSD
    /\ run[FALSE].collateralTypes[1][2].minDelegationD18.bn = 0
    /\ query[FALSE].data = Some(<<>>)
    /\ run[TRUE].pc = "resolved"
    /\ query[TRUE].data = run[FALSE].collateralTypes

\* C8: in one run each batch is issued at most once, the two are issued
\* together and only after the configurations were fetched and all validated,
\* both are in flight until the first response, the load returns only after
\* both are fulfilled, and what it returns depends on the contracts' answers
\* alone, not on the order of the responses.
C8_BatchesTogether ==
    \A k \in BOOLEAN :
        LET r == run[k]
        IN  /\ r.nSymbolCalls <= 1 /\ r.nPriceCalls <= 1
            /\ r.nSymbolCalls = r.nPriceCalls
            /\ r.nSymbolCalls = 1 =>
                /\ r.nConfigCalls = 1
                /\ ParseConfigs(chainConfigs) = Some(r.tokenConfigs)
            /\ r.pc = "batches" => r.nSymbolCalls = 1 /\ r.nPriceCalls = 1
            /\ r.nSymbolCalls = 1 /\ r.arrival = <<>> =>
                r.symbolsP.state = "pending" /\ r.pricesP.state = "pending"
            /\ Len(r.arrival) = 1 =>
                \/ r.symbolsP.state = "pending" /\ r.pricesP.state # "pending"
                \/ r.symbolsP.state # "pending" /\ r.pricesP.state = "pending"
            /\ r.allP.state = "fulfilled" =>
                r.symbolsP.state = "fulfilled" /\ r.pricesP.state = "fulfilled"
            /\ r.collateralTypes # None =>
                /\ r.arrival \in {<<"symbols", "prices">>, <<"prices", "symbols">>}
                /\ r.allP.state = "fulfilled"
                /\ r.collateralTypes =
                     Some([i \in 1..Len(chainConfigs) |->
                        [depositingEnabled    |-> chainConfigs[i].depositingEnabled[1],
                         issuanceRatioD18     |-> wei(chainConfigs[i].issuanceRatioD18[1]),
                         liquidationRatioD18  |-> wei(chainConfigs[i].liquidationRatioD18[1]),
                         liquidationRewardD18 |-> wei(chainConfigs[i].liquidationRewardD18[1]),
                         minDelegationD18     |-> wei(chainConfigs[i].minDelegationD18[1]),
                         oracleNodeId         |-> chainConfigs[i].oracleNodeId[1],
                         tokenAddress         |-> chainConfigs[i].tokenAddress[1],
                         price  |-> wei(CollateralPrice(chainConfigs[i].tokenAddress[1])[1]),
                         symbol |-> ERC20Symbol(chainConfigs[i].tokenAddress[1])[1],
                         displaySymbol |->
                            IF ERC20Symbol(chainConfigs[i].tokenAddress[1])[1] = S_WETH
                            THEN S_ETH
                            ELSE ERC20Symbol(chainConfigs[i].tokenAddress[1])[1]]])

\* A load returned records after the prices came before the symbols, while
\* the run of the other entry had both its batches in flight.
C8_Witness ==
    \E k \in BOOLEAN :
        /\ run[k].collateralTypes # None
        /\ run[k].arrival = <<"prices", "symbols">>
        /\ Len(run[k].collateralTypes[1]) = 2
        /\ run[~k].symbolsP.state = "pending"
        /\ run[~k].pricesP.state = "pending"

\* C9: the query is enabled exactly when both handles are present, and a
\* queryFn that ran without one of them threw its own error, made no contract
\* call and returned nothing.
C9_MissingHandles ==
    /\ QueryEnabled(CoreProxy, Multicall3) <=>
            (CoreProxy = "contract" /\ Multicall3 = "contract")
    /\ \A k \in BOOLEAN :
        LET r == run[k]
        IN  /\ r.pc # "idle" /\ (r.captured.CoreProxy = "undefined"
                                 \/ r.captured.Multicall3 = "undefined") =>
                /\ r.pc \in {"returned", "rejected"}
                /\ r.error = E_missing
                /\ r.nConfigCalls = 0 /\ r.nSymbolCalls = 0 /\ r.nPriceCalls = 0
                /\ r.symbolsP.state = "none" /\ r.pricesP.state = "none"
                /\ r.collateralTypes = None
                /\ r.result = None
                /\ r.pc = "rejected" =>
                        query[k].status = "error" /\ query[k].error = E_missing
            /\ r.nConfigCalls = 1 =>
                r.captured.CoreProxy = "contract" /\ r.captured.Multicall3 = "contract"

\* A refetch ran with the core handle and without the multicall handle.
C9_Witness ==
    \E k \in BOOLEAN :
        /\ run[k].pc = "rejected"
        /\ run[k].error = E_missing
        /\ run[k].captured.CoreProxy = "contract"
        /\ run[k].captured.Multicall3 = "undefined"
        /\ ~QueryEnabled(CoreProxy, Multicall3)

\* C4: at its last render the selector returned no record when the collection
\* it saw was absent or empty; else the first record when the input was
\* absent or empty; else the first record whose symbol equals the input when
\* both are lower-cased, and no record when none does.
C4_Selector ==
    LET coll == rendered
        matches == { i \in DOMAIN coll[1] :
                        ToLowerCase(coll[1][i].symbol) = ToLowerCase(collateralSymbol[1]) }
    IN  IF coll = None \/ coll[1] = <<>> THEN selected = None
        ELSE IF collateralSymbol = None \/ collateralSymbol = Some(<<>>)
        THEN selected = Some(coll[1][1])
        ELSE IF matches = {} THEN selected = None
        ELSE /\ selected # None
             /\ \E i \in matches : /\ selected[1] = coll[1][i]
                                   /\ \A j \in matches : i <= j

\* Asked for 'LIN' with the Kelvin sign, the selector returned the "link"
\* record, which stands before the "LINK" record.
C4_Witness ==
    /\ collateralSymbol = Some(S_LIN_Kelvin)
    /\ selected # None
    /\ selected[1].symbol = S_link
    /\ Len(rendered[1]) = 2
    /\ rendered[1][2].symbol = S_LINK

\* C10: the collection the selector works on is the default-filtered one:
\* whatever the input, every record it saw at its last render, and so the
\* record it returned, has a symbol other than 'sUSD' and 'snxUSD' and a
\* minimum delegation below MaxUint256.
C10_SelectorDefaultFiltered ==
    /\ selected # None =>
        /\ selected[1].symbol \notin {S_sUSD, S_snxUSD}
        /\ selected[1].minDelegationD18.bn < MaxUint256
    /\ rendered # None =>
        \A r \in Range(rendered[1]) :
            /\ r.symbol \notin {S_sUSD, S_snxUSD}
            /\ r.minDelegationD18.bn < MaxUint256

\* Asked for "usdc" while the inclusive entry holds the delegation-disabled
\* USDC record and the default entry is loaded and not empty, the selector
\* returned nothing.
C10_Witness ==
    /\ collateralSymbol = Some(S_usdc)
    /\ selected = None
    /\ query[TRUE].data # None
    /\ \E r \in Range(query[TRUE].data[1]) :
            r.symbol = S_USDC /\ r.minDelegationD18.bn = MaxUint256
    /\ query[FALSE].status = "success"
    /\ rendered = query[FALSE].data
    /\ rendered[1] # <<>>

\* C5: a call is resolved to the import of the 420 binding exactly for
\* (420, 'main') and to that of the 84531-competition binding exactly for
\* (84531, 'competition'), an omitted preset counting as 'main', and is
\* fulfilled with no other module than that binding; every other call is
\* rejected with the 'Unsupported chain' error when it returns, and never
\* yields a module.
C5_ImportMap ==
    \A i \in DOMAIN imports :
        LET c == imports[i].chainId
            p == imports[i].preset
            pr == imports[i].promise
        IN  /\ pr.target = M_420 <=> (c = 420 /\ p \in {None, Some("main")})
            /\ pr.target = M_84531_competition <=> (c = 84531 /\ p = Some("competition"))
            /\ pr.target \in {M_420, M_84531_competition, ""}
            /\ pr.state = "fulfilled" => pr.target # "" /\ pr.module = pr.target
            /\ pr.state # "fulfilled" => pr.module = ""
            /\ pr.target # "" /\ pr.state = "rejected" => pr.error = E_load
            /\ pr.target = "" =>
                /\ pr.state = "rejected"
                /\ pr.error \in
                    { "Unsupported chain " \o d \o " for PerpsMarketProxy" :
                        d \in {"0", "42", "420", "421", "4200", "84531", "8453", "-420"} }
                /\ c = 84531 => pr.error = "Unsupported chain 84531 for PerpsMarketProxy"
                /\ c = 420 => pr.error = "Unsupported chain 420 for PerpsMarketProxy"

\* importPerpsMarketProxy(420), without a preset, was fulfilled with the 420
\* binding while importPerpsMarketProxy(84531) had been rejected.
C5_Witness ==
    \E i, j \in DOMAIN imports :
        /\ imports[i].chainId = 420
        /\ imports[i].preset = None
        /\ imports[i].promise.state = "fulfilled"
        /\ imports[i].promise.module = M_420
        /\ imports[j].chainId = 84531
        /\ imports[j].preset = None
        /\ imports[j].promise.state = "rejected"

====
